---- MODULE Spec2Model ----
(***************************************************************************)
(* Model of amr-wind's ABLFieldInit (src/amr-wind/wind_energy/             *)
(* ABLFieldInit.cpp): the constructor, the mean-field pass operator(),     *)
(* the stochastic temperature pass perturb_temperature() and init_tke().   *)
(*                                                                         *)
(* amrex::Real arithmetic is modelled over exact rationals <<num, den>>    *)
(* (floating-point rounding is outside the model).  The deterministic      *)
(* velocity perturbation of lines 124-132 uses exp and cos of real         *)
(* arguments; the term it adds is kept symbolic (see UPert, VPert).        *)
(*                                                                         *)
(* Inputs are those the interface documents: non-empty tables with         *)
(* ascending heights (the constructor checks only that the two lengths     *)
(* agree), a three-component velocity, and a timetable file that is either *)
(* not openable or holds one well-formed record.  The passes are the calls *)
(* a driver makes on the constructed object, in any order; a call runs to  *)
(* completion before the next begins.                                      *)
(***************************************************************************)
EXTENDS Integers, Sequences, FiniteSets, TLC

(***************************************************************************)
(* Bounds of the model.                                                    *)
(***************************************************************************)
\* longest temperature table drawn
MaxLen == 3
\* number of field passes (operator(), perturb_temperature, init_tke) run
MaxPasses == 2
\* largest OpenMP thread count drawn
NThreads == 2

(***************************************************************************)
(* amrex::Real as exact rationals <<n, d>>, d > 0, in lowest terms.        *)
(***************************************************************************)
Abs(x) == IF x < 0 THEN -x ELSE x

RECURSIVE GCD(_, _)
GCD(a, b) == IF b = 0 THEN a ELSE GCD(b, a % b)

Norm(n, d) ==
    LET g == GCD(Abs(n), Abs(d))
        s == IF d < 0 THEN -1 ELSE 1
    IN  <<(s * n) \div g, (s * d) \div g>>

R(n) == <<n, 1>>

RAdd(a, b) == Norm(a[1] * b[2] + b[1] * a[2], a[2] * b[2])

RSub(a, b) == Norm(a[1] * b[2] - b[1] * a[2], a[2] * b[2])

RMul(a, b) == Norm(a[1] * b[1], a[2] * b[2])

RDiv(a, b) == Norm(a[1] * b[2], a[2] * b[1])

RLt(a, b) == a[1] * b[2] < b[1] * a[2]

RLe(a, b) == a[1] * b[2] <= b[1] * a[2]

(***************************************************************************)
(* The index space: cells <<i, j, k>> and boxes [lo, hi] (amrex::Box).     *)
(***************************************************************************)
DomLo == <<0, 0, 0>>
DomHi == <<1, 0, 1>>

MkBox(lo, hi) == [lo |-> lo, hi |-> hi]

CellsOf(b) ==
    {<<i, j, k>> : i \in b.lo[1]..b.hi[1], j \in b.lo[2]..b.hi[2], k \in b.lo[3]..b.hi[3]}

Grow(b, n) ==
    MkBox(<<b.lo[1] - n, b.lo[2] - n, b.lo[3] - n>>, <<b.hi[1] + n, b.hi[2] + n, b.hi[3] + n>>)

Domain == MkBox(DomLo, DomHi)

Cells == CellsOf(Domain)

EmptyBox == MkBox(DomLo, <<-1, -1, -1>>)

\* the boxes operator() is called with: the whole domain, its k = lo layer, its far corner
\* cell, and the empty box
Regions ==
    { Domain,
      MkBox(DomLo, <<DomHi[1], DomHi[2], DomLo[3]>>),
      MkBox(DomHi, DomHi),
      EmptyBox }

\* loop order of amrex::ParallelFor / ParallelForRNG on the host: k outermost, i innermost
LoopBefore(c, d) ==
    \/ c[3] < d[3]
    \/ c[3] = d[3] /\ c[2] < d[2]
    \/ c[3] = d[3] /\ c[2] = d[2] /\ c[1] < d[1]

(***************************************************************************)
(* Inputs: the ParmParse database (cfg) and the run's environment (env):   *)
(* the timetable file, the level's geometry, the random seed and thread    *)
(* count, the MFIter tiling, the fields' contents before initialisation    *)
(* and the box layout of the TKE MultiFab.                                 *)
(***************************************************************************)
HeightSet == {0, 1, 3}
ValueSet == {1, 4}

\* ascending (non-decreasing) breakpoint sequences, as the input contract asks
AscSeqs(n) == {h \in [1..n -> HeightSet] : \A a \in 1..(n - 1) : h[a] <= h[a + 1]}

HeightSeqs == UNION {AscSeqs(n) : n \in 1..MaxLen}

ValueSeqs == UNION {[1..n -> ValueSet] : n \in 1..MaxLen}

\* <<problo[2], dx[2]>> of the level's geometry
Geometries == {<<-1, 2>>, <<0, 2>>, <<0, 1>>}

TimetablePath == "abl_vel.txt"

GoodFile(dir) == [good |-> TRUE, time |-> 120, speed |-> 2, dir |-> dir]

NoFile == [good |-> FALSE, time |-> 0, speed |-> 0, dir |-> 0]

Directions == {0, 90, 180, 270, 450, -90}

\* MFIter tile arrays of the temperature field: one tile, split in x, split in z
Tilings ==
    { <<Domain>>,
      <<MkBox(DomLo, <<DomLo[1], DomHi[2], DomHi[3]>>), MkBox(<<DomLo[1] + 1, DomLo[2], DomLo[3]>>, DomHi)>>,
      <<MkBox(DomLo, <<DomHi[1], DomHi[2], DomLo[3]>>), MkBox(<<DomLo[1], DomLo[2], DomLo[3] + 1>>, DomHi)>> }

\* box layouts of the TKE MultiFab: no box, one box, two boxes
TkeLayouts ==
    { {},
      {Domain},
      {MkBox(DomLo, <<DomLo[1], DomHi[2], DomHi[3]>>), MkBox(<<DomLo[1] + 1, DomLo[2], DomLo[3]>>, DomHi)} }

BaseCfg ==
    [ temperature_heights |-> <<0, 3>>,
      temperature_values  |-> <<1, 4>>,
      perturb_velocity    |-> FALSE,
      random_gauss_mean   |-> 1,
      random_gauss_var    |-> 2,
      cutoff_height       |-> 2,
      theta_amplitude     |-> 3,
      init_tke            |-> 6,
      density             |-> 7,
      velocity_timetable  |-> "",
      velocity            |-> <<3, 1, 2>> ]

BaseEnv ==
    [ file     |-> NoFile,
      problo_z |-> -1,
      dz       |-> 2,
      seed     |-> 1,
      nthreads |-> 1,
      tiling   |-> <<Domain>>,
      prior    |-> 5,
      tkeBoxes |-> {} ]

\* every pair of tables (equal length or not) under every geometry
ProfileInputs ==
    { <<[BaseCfg EXCEPT !.temperature_heights = h, !.temperature_values = v],
        [BaseEnv EXCEPT !.problo_z = g[1], !.dz = g[2]]>> :
        h \in HeightSeqs, v \in ValueSeqs, g \in Geometries }

\* the velocity sources: fixed vector, timetable file present, timetable file missing
VelocityInputs ==
    { <<[BaseCfg EXCEPT !.perturb_velocity = pv, !.velocity_timetable = tt],
        [BaseEnv EXCEPT !.file = f, !.prior = p]>> :
        pv \in BOOLEAN, tt \in {"", TimetablePath},
        f \in {NoFile} \cup {GoodFile(d) : d \in Directions}, p \in {0, 5} }

\* the stochastic pass: cutoff, <<amplitude, mean, deviation, seed>>, thread count and tiling
ThetaInputs ==
    { <<[BaseCfg EXCEPT !.cutoff_height = co, !.theta_amplitude = a[1],
                        !.random_gauss_mean = a[2], !.random_gauss_var = a[3]],
        [BaseEnv EXCEPT !.seed = a[4], !.nthreads = nt, !.tiling = tl]>> :
        co \in {0, 2, 3}, a \in {<<3, 1, 2, 1>>, <<2, 0, 1, 2>>},
        nt \in 1..NThreads, tl \in Tilings }

\* the TKE fill: layout, constant, previous contents
TkeInputs ==
    { <<[BaseCfg EXCEPT !.init_tke = t], [BaseEnv EXCEPT !.tkeBoxes = l, !.prior = p]>> :
        t \in {0, 6}, l \in TkeLayouts, p \in {0, 5} }

Inputs == ProfileInputs \cup VelocityInputs \cup ThetaInputs \cup TkeInputs

(***************************************************************************)
(* State.                                                                  *)
(***************************************************************************)
VARIABLES
    cfg,          \* the ParmParse database
    env,          \* the run's environment
    pc,           \* "start", "ready" (constructed) or "aborted"
    diag,         \* the abort diagnostic
    m,            \* the members m_... of the ABLFieldInit object
    velocity,     \* cell -> <<u, v, w>>, each [m |-> value, p |-> perturbation terms added]
    density,      \* cell -> value
    temperature,  \* cell -> rational
    tke,          \* box of the MultiFab -> (cell of the box's FAB, ghost cells included -> value)
    pass,         \* the pass in progress: "none", "mean" or "theta"
    vbx,          \* the box operator() was called with
    todo,         \* cells of the running ParallelFor not yet executed
    thr,          \* thread -> the cells left of its tiles of the running MFIter loop, in order
    engine,       \* thread -> number of values drawn from its random engine so far
    last,         \* the pass that completed last
    pre,          \* the fields as they were when the last pass began
    writes,       \* stores made by the last pass, per field and cell (component)
    draws,        \* cell -> <<thread, position>> of the draw the last stochastic pass gave it
    nPasses,      \* passes begun
    nMean,        \* cell -> mean-field passes that covered it
    nTheta        \* stochastic passes completed

vars ==
    <<cfg, env, pc, diag, m, velocity, density, temperature, tke, pass, vbx, todo, thr, engine, last, pre, writes, draws, nPasses, nMean, nTheta>>

Threads == 0..(NThreads - 1)

NoPert == <<>>

Plain(x) == [m |-> x, p |-> NoPert]

ZeroWrites ==
    [ velocity    |-> [c \in Cells |-> <<0, 0, 0>>],
      density     |-> [c \in Cells |-> 0],
      temperature |-> [c \in Cells |-> 0],
      tke         |-> [b \in env.tkeBoxes |-> [c \in CellsOf(Grow(b, 1)) |-> 0]] ]

Fields ==
    [ velocity |-> velocity, density |-> density, temperature |-> temperature, tke |-> tke,
      engine |-> engine ]

NoDraws == [c \in Cells |-> <<-1, -1>>]

\* the object before its constructor has run
Unconstructed ==
    [ theta_heights |-> <<>>, theta_values |-> <<>>, thht_d |-> <<>>, thvv_d |-> <<>>,
      perturb_vel |-> FALSE, theta_gauss_mean |-> 0, theta_gauss_var |-> 0,
      theta_cutoff_height |-> 0, deltaT |-> 0, tke_init |-> 0, rho |-> 0,
      vel_timetable |-> "", vel_speed |-> 0, vel_dir |-> 0, vel_rad |-> R(0), vel |-> <<>> ]

Init ==
    /\ \E in \in Inputs :
        /\ cfg = in[1]
        /\ env = in[2]
        /\ velocity = [c \in Cells |-> <<Plain(in[2].prior), Plain(in[2].prior + 1), Plain(in[2].prior + 2)>>]
        /\ density = [c \in Cells |-> in[2].prior]
        /\ temperature = [c \in Cells |-> R(in[2].prior + c[3])]
        /\ tke = [b \in in[2].tkeBoxes |-> [c \in CellsOf(Grow(b, 1)) |-> in[2].prior]]
        /\ writes = ZeroWrites
    /\ pc = "start"
    /\ diag = <<>>
    /\ m = Unconstructed
    /\ pass = "none"
    /\ vbx = EmptyBox
    /\ todo = {}
    /\ thr = [t \in Threads |-> <<>>]
    /\ engine = [t \in Threads |-> 0]
    /\ last = "none"
    /\ pre = Fields
    /\ draws = NoDraws
    /\ nPasses = 0
    /\ nMean = [c \in Cells |-> 0]
    /\ nTheta = 0

(***************************************************************************)
(* ABLFieldInit::ABLFieldInit(), lines 10-63.                              *)
(***************************************************************************)
\* utils::radians: degrees to radians, here in units of pi
radians(deg) == Norm(deg, 180)

\* members after lines 15-16
ReadTables == [m EXCEPT !.theta_heights = cfg.temperature_heights,
                        !.theta_values = cfg.temperature_values]

\* members after lines 21-41 (the periods, amplitudes and reference height of the velocity
\* perturbation, lines 22-26, enter only the term kept symbolic and are not carried)
ReadScalars(mm) ==
    [mm EXCEPT !.perturb_vel = cfg.perturb_velocity,
               !.theta_gauss_mean = cfg.random_gauss_mean,
               !.theta_gauss_var = cfg.random_gauss_var,
               !.theta_cutoff_height = cfg.cutoff_height,
               !.deltaT = cfg.theta_amplitude,
               !.tke_init = cfg.init_tke,
               !.rho = cfg.density,
               !.vel_timetable = cfg.velocity_timetable]

\* lines 47-49: one record read from the open timetable file
ReadTimetable(mm) ==
    [mm EXCEPT !.vel_speed = env.file.speed,
               !.vel_dir = env.file.dir,
               !.vel_rad = radians(env.file.dir)]

\* line 51
ReadVelocity(mm) == [mm EXCEPT !.vel = cfg.velocity]

\* lines 54-62: the host tables copied to the device vectors
CopyToDevice(mm) == [mm EXCEPT !.thht_d = mm.theta_heights, !.thvv_d = mm.theta_values]

\* lines 42-44: a timetable is configured and the stream opened on it is not good
TimetableMissing_Unchecked(mm) == FALSE

TimetableMissing(mm) == mm.vel_timetable # "" /\ ~env.file.good

AssertDiag == <<"Assertion failed", "m_theta_heights.size() == m_theta_values.size()">>

AbortDiag(path) == <<"Cannot find input file: ", path>>

Construct ==
    /\ pc = "start"
    /\ LET m1 == ReadTables
           m2 == ReadScalars(m1)
       IN  IF Len(m1.theta_heights) # Len(m1.theta_values)
           THEN /\ pc' = "aborted"
                /\ diag' = AssertDiag
                /\ m' = m1
           ELSE IF TimetableMissing(m2)
           THEN /\ pc' = "aborted"
                /\ diag' = AbortDiag(m2.vel_timetable)
                /\ m' = m2
           ELSE /\ pc' = "ready"
                /\ diag' = <<>>
                /\ m' = CopyToDevice(IF m2.vel_timetable # ""
                                     THEN ReadTimetable(m2)
                                     ELSE ReadVelocity(m2))
    /\ UNCHANGED <<cfg, env, velocity, density, temperature, tke, pass, vbx, todo, thr, engine, last, pre, writes, draws, nPasses, nMean, nTheta>>

(***************************************************************************)
(* ABLFieldInit::operator(), lines 65-134: the mean-field pass.            *)
(***************************************************************************)
\* line 105: the height of the centre of the cells of layer k
Z(k) == RAdd(R(env.problo_z), RMul(<<2 * k + 1, 2>>, R(env.dz)))

\* std::cos and std::sin of an angle given in units of pi, at the multiples of pi/2
Quadrant(rad) == ((2 * rad[1]) \div rad[2]) % 4

Cos(rad) == CASE Quadrant(rad) = 0 -> 1 [] Quadrant(rad) = 2 -> -1 [] OTHER -> 0

Sin(rad) == CASE Quadrant(rad) = 1 -> 1 [] Quadrant(rad) = 3 -> -1 [] OTHER -> 0

\* lines 80-91: <<umean, vmean, wmean>>
MeanVelocity_Swapped ==
    IF m.vel_timetable # ""
    THEN <<m.vel_speed * Sin(m.vel_rad), m.vel_speed * Cos(m.vel_rad), 0>>
    ELSE <<m.vel[1], m.vel[2], m.vel[3]>>

MeanVelocity ==
    IF m.vel_timetable # ""
    THEN <<m.vel_speed * Cos(m.vel_rad), m.vel_speed * Sin(m.vel_rad), 0>>
    ELSE <<m.vel[1], m.vel[2], m.vel[3]>>

\* lines 113-120: the loop over the breakpoint pairs, iz = 0 .. ntvals - 2
RECURSIVE ThetaLoop(_, _, _, _, _, _)
ThetaLoop(th, tv, ntvals, z, iz, theta) ==
    IF ~(iz < ntvals - 1)
    THEN theta
    ELSE IF RLt(R(th[iz + 1]), z) /\ RLe(z, R(th[iz + 2]))
         THEN LET slope == RDiv(R(tv[iz + 2] - tv[iz + 1]), R(th[iz + 2] - th[iz + 1]))
              IN  ThetaLoop(th, tv, ntvals, z, iz + 1,
                            RAdd(R(tv[iz + 1]), RMul(RSub(z, R(th[iz + 1])), slope)))
         ELSE ThetaLoop(th, tv, ntvals, z, iz + 1, theta)

\* the loop without the interpolation of lines 116-118: theta = tv[iz]
RECURSIVE ThetaLoop_Step(_, _, _, _, _, _)
ThetaLoop_Step(th, tv, ntvals, z, iz, theta) ==
    IF ~(iz < ntvals - 1)
    THEN theta
    ELSE IF RLt(R(th[iz + 1]), z) /\ RLe(z, R(th[iz + 2]))
         THEN ThetaLoop_Step(th, tv, ntvals, z, iz + 1, R(tv[iz + 1]))
         ELSE ThetaLoop_Step(th, tv, ntvals, z, iz + 1, theta)

ProfileTheta_Step(z) ==
    ThetaLoop_Step(m.thht_d, m.thvv_d, Len(m.theta_heights), z, 0, R(m.thvv_d[1]))

\* the profile clamped to the last value above the table
ProfileTheta_ClampTop(z) ==
    IF RLt(R(m.thht_d[Len(m.thht_d)]), z)
    THEN R(m.thvv_d[Len(m.thvv_d)])
    ELSE ThetaLoop(m.thht_d, m.thvv_d, Len(m.theta_heights), z, 0, R(m.thvv_d[1]))

\* lines 98-100 and 113-120: the profile value theta at height z
ProfileTheta(z) ==
    ThetaLoop(m.thht_d, m.thvv_d, Len(m.theta_heights), z, 0, R(m.thvv_d[1]))

\* lines 124-132: the terms ufac * damp * z * cos(aval * yl) and vfac * damp * z * cos(bval * xl),
\* kept symbolic: the first depends on the cell's j and k, the second on its i and k
UPert(c) == <<0, c[2], c[3]>>

VPert(c) == <<1, c[1], c[3]>>

AddPert(x, term) == [x EXCEPT !.p = Append(x.p, term)]

\* the lambda perturbing whatever m_perturb_vel says
LambdaVelocity_PerturbAlways(c) ==
    <<AddPert(Plain(MeanVelocity[1]), UPert(c)), AddPert(Plain(MeanVelocity[2]), VPert(c)),
      Plain(MeanVelocity[3])>>

\* lines 109-111 and 130-131: the velocity the lambda leaves in cell c
LambdaVelocity(c) ==
    LET mean == <<Plain(MeanVelocity[1]), Plain(MeanVelocity[2]), Plain(MeanVelocity[3])>>
    IN  IF m.perturb_vel
        THEN <<AddPert(mean[1], UPert(c)), AddPert(mean[2], VPert(c)), mean[3]>>
        ELSE mean

\* line 107
LambdaDensity(c) == m.rho

\* line 122
LambdaTemperature_Overwrite(c) == ProfileTheta(Z(c[3]))

LambdaTemperature(c) == RAdd(temperature[c], ProfileTheta(Z(c[3])))

\* the stores the lambda makes to cell c: lines 107, 109-111, 122 and, perturbing, 130-131
LambdaStores(c) ==
    [ velocity    |-> IF m.perturb_vel THEN <<2, 2, 1>> ELSE <<1, 1, 1>>,
      density     |-> 1,
      temperature |-> 1 ]

\* the call: lines 72-100
MeanBegin(b) ==
    /\ pc = "ready"
    /\ pass = "none"
    /\ nPasses < MaxPasses
    /\ pass' = "mean"
    /\ vbx' = b
    /\ todo' = CellsOf(b)
    /\ pre' = Fields
    /\ writes' = ZeroWrites
    /\ nPasses' = nPasses + 1
    /\ UNCHANGED <<cfg, env, pc, diag, m, velocity, density, temperature, tke, thr,
                   engine, last, draws, nMean, nTheta>>

\* one invocation of the lambda of amrex::ParallelFor, lines 102-133
MeanCell(c) ==
    /\ pass = "mean"
    /\ c \in todo
    /\ todo' = todo \ {c}
    /\ density' = [density EXCEPT ![c] = LambdaDensity(c)]
    /\ velocity' = [velocity EXCEPT ![c] = LambdaVelocity(c)]
    /\ temperature' = [temperature EXCEPT ![c] = LambdaTemperature(c)]
    /\ writes' = [writes EXCEPT
                    !.velocity[c] = [n \in 1..3 |-> @[n] + LambdaStores(c).velocity[n]],
                    !.density[c] = @ + LambdaStores(c).density,
                    !.temperature[c] = @ + LambdaStores(c).temperature]
    /\ nMean' = [nMean EXCEPT ![c] = @ + 1]
    /\ UNCHANGED <<cfg, env, pc, diag, m, tke, pass, vbx, thr, engine, last, pre,
                   draws, nPasses, nTheta>>

\* amrex::ParallelFor returns: every cell of the box has been executed
MeanEnd ==
    /\ pass = "mean"
    /\ todo = {}
    /\ pass' = "none"
    /\ last' = "mean"
    /\ UNCHANGED <<cfg, env, pc, diag, m, velocity, density, temperature, tke, vbx, todo,
                   thr, engine, pre, writes, draws, nPasses, nMean, nTheta>>

(***************************************************************************)
(* ABLFieldInit::perturb_temperature(), lines 136-180.                     *)
(***************************************************************************)
\* the cells of a tile in the loop order of amrex::ParallelForRNG
RECURSIVE InLoopOrder(_)
InLoopOrder(S) ==
    IF S = {}
    THEN <<>>
    ELSE LET first == CHOOSE c \in S : \A d \in S \ {c} : LoopBefore(c, d)
         IN  <<first>> \o InLoopOrder(S \ {first})

\* the n-th standard-normal value of the engine of thread t under the run's seed
\* (amrex's per-thread generators, seeded from the run seed and the thread number)
EngineValue(seed, t, n) == (((seed + t) * 7 + n * 3) % 5) - 2

\* an engine that is never advanced
RandomNormal_StaleEngine(mean, stddev, t) == mean + stddev * EngineValue(env.seed, t, 0)

\* amrex::RandomNormal(mean, stddev, engine), lines 175-176
RandomNormal(mean, stddev, t) == mean + stddev * EngineValue(env.seed, t, engine[t])

\* line 173
BelowCutoff_Inclusive(c) == RLe(Z(c[3]), R(m.theta_cutoff_height))

BelowCutoff(c) == RLt(Z(c[3]), R(m.theta_cutoff_height))

\* lines 174-176: the value stored in a cell below the cutoff by thread t
LambdaTheta(c, t) == R(m.deltaT * RandomNormal(m.theta_gauss_mean, m.theta_gauss_var, t))

\* the tiles [begin, end) of an n-tile MFIter loop that thread t of nthreads iterates:
\* amrex::MFIter splits the tile array into contiguous chunks, one per thread
ChunkBegin(t, n, nthreads) ==
    LET nr == n \div nthreads
        nlft == n - nr * nthreads
    IN  IF t < nlft THEN t * (nr + 1) ELSE t * nr + nlft

ChunkEnd(t, n, nthreads) ==
    LET nr == n \div nthreads
        nlft == n - nr * nthreads
    IN  ChunkBegin(t, n, nthreads) + (IF t < nlft THEN nr + 1 ELSE nr)

\* the cells of tiles a+1 .. b of the tile array, tile after tile, each in loop order
RECURSIVE TileCells(_, _, _)
TileCells(tiling, a, b) ==
    IF a >= b THEN <<>> ELSE InLoopOrder(CellsOf(tiling[a + 1])) \o TileCells(tiling, a + 1, b)

\* lines 160-166: the cells thread t executes, in the order it executes them
ThreadWork(t) ==
    IF t < env.nthreads
    THEN TileCells(env.tiling, ChunkBegin(t, Len(env.tiling), env.nthreads),
                   ChunkEnd(t, Len(env.tiling), env.nthreads))
    ELSE <<>>

\* the call: lines 152-166, the parallel region opened
ThetaBegin ==
    /\ pc = "ready"
    /\ pass = "none"
    /\ nPasses < MaxPasses
    /\ pass' = "theta"
    /\ thr' = [t \in Threads |-> ThreadWork(t)]
    /\ pre' = Fields
    /\ writes' = ZeroWrites
    /\ draws' = NoDraws
    /\ nPasses' = nPasses + 1
    /\ UNCHANGED <<cfg, env, pc, diag, m, velocity, density, temperature, tke, vbx, todo,
                   engine, last, nMean, nTheta>>

\* one invocation of the lambda of amrex::ParallelForRNG, lines 168-178, by thread t
ThetaCell(t) ==
    /\ pass = "theta"
    /\ thr[t] # <<>>
    /\ LET c == Head(thr[t])
       IN  IF BelowCutoff(c)
           THEN /\ temperature' = [temperature EXCEPT ![c] = LambdaTheta(c, t)]
                /\ engine' = [engine EXCEPT ![t] = @ + 1]
                /\ writes' = [writes EXCEPT !.temperature[c] = @ + 1]
                /\ draws' = [draws EXCEPT ![c] = <<t, engine[t]>>]
           ELSE UNCHANGED <<temperature, engine, writes, draws>>
    /\ thr' = [thr EXCEPT ![t] = Tail(@)]
    /\ UNCHANGED <<cfg, env, pc, diag, m, velocity, density, tke, pass, vbx, todo, last,
                   pre, nPasses, nMean, nTheta>>

\* the MFIter loops and the parallel region end
ThetaEnd ==
    /\ pass = "theta"
    /\ \A t \in Threads : thr[t] = <<>>
    /\ pass' = "none"
    /\ last' = "theta"
    /\ nTheta' = nTheta + 1
    /\ UNCHANGED <<cfg, env, pc, diag, m, velocity, density, temperature, tke, vbx, todo,
                   thr, engine, pre, writes, draws, nPasses, nMean>>

(***************************************************************************)
(* ABLFieldInit::init_tke(), lines 183-187.                                *)
(***************************************************************************)
\* the cells MultiFab::setVal(val, nghost) stores to in the FAB of box b
SetValCells_ValidOnly(b, nghost) == CellsOf(b)

SetValCells(b, nghost) == CellsOf(Grow(b, nghost))

\* line 186: tke.setVal(m_tke_init, 1)
SetValTke_SkipFirst ==
    [b \in DOMAIN tke |->
        [c \in DOMAIN tke[b] |->
            IF c \in SetValCells(b, 1) /\ c # b.lo THEN m.tke_init ELSE tke[b][c]]]

SetValTke ==
    [b \in DOMAIN tke |->
        [c \in DOMAIN tke[b] |-> IF c \in SetValCells(b, 1) THEN m.tke_init ELSE tke[b][c]]]

InitTke ==
    /\ pc = "ready"
    /\ pass = "none"
    /\ nPasses < MaxPasses
    /\ tke' = SetValTke
    /\ pre' = Fields
    /\ writes' = [ZeroWrites EXCEPT
                    !.tke = [b \in DOMAIN tke |->
                                [c \in DOMAIN tke[b] |-> IF c \in SetValCells(b, 1) THEN 1 ELSE 0]]]
    /\ last' = "tke"
    /\ nPasses' = nPasses + 1
    /\ UNCHANGED <<cfg, env, pc, diag, m, velocity, density, temperature, pass, vbx, todo,
                   thr, engine, draws, nMean, nTheta>>

(***************************************************************************)
(* The program.                                                            *)
(***************************************************************************)
Next ==
    \/ Construct
    \/ \E b \in Regions : MeanBegin(b)
    \/ \E c \in Cells : MeanCell(c)
    \/ MeanEnd
    \/ ThetaBegin
    \/ \E t \in Threads : ThetaCell(t)
    \/ ThetaEnd
    \/ InitTke

Spec == Init /\ [][Next]_vars

(***************************************************************************)
(* Properties.  They are stated over the inputs (cfg, env) and the fields, *)
(* not over the object's members.                                          *)
(***************************************************************************)
\* pass p has completed and no other pass has begun since
Done(p) == pc = "ready" /\ pass = "none" /\ last = p

Heights == cfg.temperature_heights

Values == cfg.temperature_values

\* the linear interpolation between breakpoints i and i + 1 (1-based) at height z
Interpolation(i, z) ==
    RAdd(R(Values[i]),
         RDiv(RMul(RSub(z, R(Heights[i])), R(Values[i + 1] - Values[i])),
              R(Heights[i + 1] - Heights[i])))

Bracketed(i, z) == RLt(R(Heights[i]), z) /\ RLe(z, R(Heights[i + 1]))

OutsideTable(z) == RLe(z, R(Heights[1])) \/ RLt(R(Heights[Len(Heights)]), z)

\* the mean vector the inputs resolve to
ResolvedMean ==
    IF cfg.velocity_timetable # ""
    THEN <<env.file.speed * Cos(Norm(env.file.dir, 180)),
           env.file.speed * Sin(Norm(env.file.dir, 180)), 0>>
    ELSE cfg.velocity

\* the fields' contents before any pass
InitialTemperature(c) == R(env.prior + c[3])

\* C1: after a mean-field pass, every cell of the box whose centre height z lies in
\* (heights[i], heights[i+1]] has had the linear interpolation between breakpoints i and
\* i+1 at z added to its temperature.
C1_InterpolationInsideTable ==
    Done("mean") =>
        \A c \in CellsOf(vbx) : \A i \in 1..(Len(Heights) - 1) :
            Bracketed(i, Z(c[3])) =>
                temperature[c] = RAdd(pre.temperature[c], Interpolation(i, Z(c[3])))

\* a cell strictly inside a segment with different end values has been filled
C1_Witness ==
    /\ Done("mean")
    /\ \E c \in CellsOf(vbx) : \E i \in 1..(Len(Heights) - 1) :
        /\ Bracketed(i, Z(c[3]))
        /\ RLt(Z(c[3]), R(Heights[i + 1]))
        /\ Values[i] # Values[i + 1]
        /\ Interpolation(i, Z(c[3]))[2] # 1

\* C2: after a mean-field pass, every cell of the box whose centre height is at or below
\* the first breakpoint or strictly above the last one has had values[0], the first
\* tabulated value, added to its temperature.
C2_FirstValueOutsideTable ==
    Done("mean") =>
        \A c \in CellsOf(vbx) :
            OutsideTable(Z(c[3])) =>
                temperature[c] = RAdd(pre.temperature[c], R(Values[1]))

\* a cell above a table whose last value differs from its first has been filled
C2_Witness ==
    /\ Done("mean")
    /\ Len(Heights) >= 2
    /\ Values[Len(Values)] # Values[1]
    /\ \E c \in CellsOf(vbx) : RLt(R(Heights[Len(Heights)]), Z(c[3]))

\* C3: the source of the mean velocity is fixed by the constructor and stays fixed; with a
\* timetable configured every cell a mean-field pass fills carries
\* (speed*cos(dir), speed*sin(dir), 0) of the file's record and the configured vector is
\* never read, and without one it carries the three configured components.
C3_MeanVelocitySource ==
    /\ pc = "ready" =>
        /\ m.vel_timetable = cfg.velocity_timetable
        /\ cfg.velocity_timetable # "" =>
            /\ m.vel = <<>>
            /\ m.vel_speed = env.file.speed
            /\ m.vel_dir = env.file.dir
        /\ cfg.velocity_timetable = "" => m.vel = cfg.velocity
    /\ Done("mean") =>
        \A c \in CellsOf(vbx) : \A n \in 1..3 : velocity[c][n].m = ResolvedMean[n]

\* a second mean-field pass has filled a cell from the record "120 2 270": (0, -2, 0)
C3_Witness ==
    /\ Done("mean")
    /\ nPasses = 2
    /\ cfg.velocity_timetable # ""
    /\ env.file.dir = 270
    /\ \E c \in CellsOf(vbx) :
        /\ nMean[c] = 2
        /\ <<velocity[c][1].m, velocity[c][2].m, velocity[c][3].m>> = <<0, -2, 0>>

C4_Fatal ==
    /\ (pc # "start" /\ Len(Heights) # Len(Values)) => pc = "aborted"
    /\ (pc # "start" /\ cfg.velocity_timetable # "" /\ ~env.file.good) => pc = "aborted"
    /\ (pc = "aborted" /\ Len(Heights) = Len(Values)) =>
            diag = <<"Cannot find input file: ", cfg.velocity_timetable>>
    /\ pc # "ready" =>
        /\ pass = "none" /\ last = "none" /\ nPasses = 0
        /\ writes = ZeroWrites
        /\ Fields = pre
        /\ \A c \in Cells : temperature[c] = InitialTemperature(c) /\ density[c] = env.prior

\* C4: a length mismatch of the tables, or a configured timetable whose file cannot be
\* opened, aborts the construction (the timetable abort names the path); no pass ever
\* runs on an initializer that was not constructed, and nothing follows an abort.
C4_ConstructionErrorsFatal ==
    /\ []C4_Fatal
    /\ [][pc = "aborted" => UNCHANGED vars]_vars

\* the construction has aborted on a missing timetable file
C4_Witness ==
    /\ pc = "aborted"
    /\ diag = <<"Cannot find input file: ", TimetablePath>>
    /\ Len(Heights) = Len(Values)

\* the value amplitude * sample for the draw at position n of the engine of thread t
ScaledSample(t, n) ==
    R(cfg.theta_amplitude *
        (cfg.random_gauss_mean + cfg.random_gauss_var * EngineValue(env.seed, t, n)))

CutOff(c) == ~RLt(Z(c[3]), R(cfg.cutoff_height))

\* the number of cells below the cutoff that precede c in the loop order over the domain
SerialRank(c) == Cardinality({d \in Cells : ~CutOff(d) /\ LoopBefore(d, c)})

\* the temperature one thread sweeping the whole level as one tile leaves in cell c
SerialTheta(c) ==
    IF CutOff(c) THEN pre.temperature[c] ELSE ScaledSample(0, pre.engine[0] + SerialRank(c))

Executor(c) == CHOOSE t \in Threads : \E n \in 1..Len(ThreadWork(t)) : ThreadWork(t)[n] = c

DrawsBefore(c) ==
    LET w == ThreadWork(Executor(c))
        at == CHOOSE n \in 1..Len(w) : w[n] = c
    IN  Cardinality({n \in 1..(at - 1) : ~CutOff(w[n])})

C6_CutoffRule ==
    Done("theta") =>
        \A c \in Cells :
            IF RLt(Z(c[3]), R(cfg.cutoff_height))
            THEN \E t \in Threads : \E n \in 0..(engine[t] - 1) :
                    draws[c] = <<t, n>> /\ temperature[c] = ScaledSample(t, n)
            ELSE temperature[c] = pre.temperature[c]

\* a pass over a mean field has kept a cell exactly at the cutoff and has overwritten a
\* cell below it with a value that is not its old temperature plus the sample
C6_Witness ==
    /\ Done("theta")
    /\ \E c \in Cells :
        /\ Z(c[3]) = R(cfg.cutoff_height)
        /\ nMean[c] > 0
        /\ temperature[c] = pre.temperature[c]
    /\ \E c \in Cells :
        /\ RLt(Z(c[3]), R(cfg.cutoff_height))
        /\ nMean[c] > 0
        /\ temperature[c] # pre.temperature[c]
        /\ pre.temperature[c] # R(0)

\* C7: a mean-field pass adds the profile value at the cell's centre height to the
\* temperature of every cell of its box and leaves the other cells' temperature alone; with
\* no stochastic pass run, a cell covered by n passes holds its initial temperature plus n
\* times the profile value, while its density and velocity are those one pass leaves.
C7_TemperatureAdditive ==
    /\ Done("mean") =>
        \A c \in Cells :
            temperature[c] = IF c \in CellsOf(vbx)
                             THEN RAdd(pre.temperature[c], ProfileTheta(Z(c[3])))
                             ELSE pre.temperature[c]
    /\ (pc = "ready" /\ pass = "none" /\ nTheta = 0) =>
        \A c \in Cells :
            /\ temperature[c] =
                    RAdd(InitialTemperature(c), RMul(R(nMean[c]), ProfileTheta(Z(c[3]))))
            /\ nMean[c] >= 1 =>
                /\ density[c] = cfg.density
                /\ velocity[c] = LambdaVelocity(c)

\* a cell has been covered by two mean-field passes with a non-zero profile value
C7_Witness ==
    /\ Done("mean")
    /\ nTheta = 0
    /\ \E c \in CellsOf(vbx) :
        /\ nMean[c] = 2
        /\ ProfileTheta(Z(c[3])) # R(0)
        /\ temperature[c] # RAdd(InitialTemperature(c), ProfileTheta(Z(c[3])))

\* C8: with the velocity perturbation disabled, after a mean-field pass over a non-empty
\* box every cell of the box has exactly the resolved mean vector as velocity and the
\* configured constant as density, whatever it held before.
C8_UnperturbedFill ==
    (Done("mean") /\ ~cfg.perturb_velocity /\ CellsOf(vbx) # {}) =>
        \A c \in CellsOf(vbx) :
            /\ velocity[c] = <<Plain(ResolvedMean[1]), Plain(ResolvedMean[2]), Plain(ResolvedMean[3])>>
            /\ density[c] = cfg.density

\* an unperturbed pass over the whole domain has replaced other velocities and densities
C8_Witness ==
    /\ Done("mean")
    /\ ~cfg.perturb_velocity
    /\ CellsOf(vbx) = Cells
    /\ \A c \in Cells :
        /\ pre.density[c] # density[c]
        /\ \A n \in 1..3 : pre.velocity[c][n] # velocity[c][n]

\* C9: after init_tke every valid cell of every box of the TKE field holds the configured
\* initial TKE, whatever it held before, and no other field has changed; with no box the
\* call changes nothing.
C9_TkeFill ==
    Done("tke") =>
        /\ \A b \in env.tkeBoxes : \A c \in CellsOf(b) : tke[b][c] = cfg.init_tke
        /\ velocity = pre.velocity /\ density = pre.density /\ temperature = pre.temperature
        /\ env.tkeBoxes = {} => tke = pre.tke

\* a two-box TKE field holding other values has been filled
C9_Witness ==
    /\ Done("tke")
    /\ Cardinality(env.tkeBoxes) = 2
    /\ \A b \in env.tkeBoxes : \A c \in CellsOf(b) : pre.tke[b][c] # tke[b][c]

\* the stores a completed mean-field pass has made
MeanWrites(perCell) ==
    \A c \in Cells :
        /\ writes.velocity[c] = IF c \in CellsOf(vbx) THEN perCell.velocity ELSE <<0, 0, 0>>
        /\ writes.density[c] = IF c \in CellsOf(vbx) THEN perCell.density ELSE 0
        /\ writes.temperature[c] = IF c \in CellsOf(vbx) THEN perCell.temperature ELSE 0

OnlyTemperatureWritten ==
    \A c \in Cells : writes.velocity[c] = <<0, 0, 0>> /\ writes.density[c] = 0

OnlyTkeWritten ==
    \A c \in Cells :
        writes.velocity[c] = <<0, 0, 0>> /\ writes.density[c] = 0 /\ writes.temperature[c] = 0

NoTkeWritten == \A b \in env.tkeBoxes : \A c \in DOMAIN writes.tke[b] : writes.tke[b][c] = 0

\* C10 as stated: in every pass each owned cell (component) of the field the pass handles
\* is stored to exactly once, and no cell outside the owned region is stored to.
C10_ExactlyOneWrite ==
    /\ Done("mean") =>
        MeanWrites([velocity |-> <<1, 1, 1>>, density |-> 1, temperature |-> 1])
    /\ Done("theta") => \A c \in Cells : writes.temperature[c] = 1
    /\ Done("tke") =>
        \A b \in env.tkeBoxes : \A c \in DOMAIN writes.tke[b] :
            writes.tke[b][c] = IF c \in CellsOf(b) THEN 1 ELSE 0

\* C10 amended: every pass stores only to the cells it executes, each executed once: the
\* mean fill stores once to density, temperature and w and once to u and v (twice with
\* the velocity perturbation enabled) in every cell of its box and nowhere else; the
\* stochastic pass stores once to the temperature of every cell below the cutoff and
\* never to a cell at or above it; the TKE fill stores once to every cell of every box
\* and once to every cell of the box's one-cell ghost layer.
C10_WritesPerPass ==
    /\ Done("mean") =>
        /\ MeanWrites([velocity    |-> IF cfg.perturb_velocity THEN <<2, 2, 1>> ELSE <<1, 1, 1>>,
                       density     |-> 1,
                       temperature |-> 1])
        /\ NoTkeWritten
    /\ Done("theta") =>
        /\ \A c \in Cells : writes.temperature[c] = IF CutOff(c) THEN 0 ELSE 1
        /\ OnlyTemperatureWritten
        /\ NoTkeWritten
    /\ Done("tke") =>
        /\ \A b \in env.tkeBoxes : \A c \in DOMAIN writes.tke[b] :
            writes.tke[b][c] = IF c \in CellsOf(Grow(b, 1)) THEN 1 ELSE 0
        /\ \A b \in env.tkeBoxes : \E c \in DOMAIN writes.tke[b] : c \notin CellsOf(b)
        /\ OnlyTkeWritten

\* a perturbed mean fill of a single cell, with its u and v stored twice, has completed
C10_Witness ==
    /\ Done("mean")
    /\ cfg.perturb_velocity
    /\ Cardinality(CellsOf(vbx)) = 1
    /\ \E c \in CellsOf(vbx) : writes.velocity[c] = <<2, 2, 1>>

====
